---------------------------- MODULE Spec2Model ----------------------------
(***************************************************************************)
(* drf_advanced_logger/handlers.py: the size-and-time rotating file        *)
(* handler (SizeTimedRotatingFileHandler), its retention sweep             *)
(* (deleteOldLogs) and the thread-local request context (thread_local,     *)
(* RequestIdFilter, RequestIdLogger, set/clear/get_request_id).            *)
(*                                                                         *)
(* The clock counts ticks, TicksPerSec to the second.  One minute is       *)
(* MinuteSecs seconds and one day is DaySecs seconds, scaled down so that  *)
(* the state space stays finite; the code depends only on their order.     *)
(*                                                                         *)
(* A file name is the sequence of its dot-separated components: the base   *)
(* file "app.log" is <<0>>, the archive "app.log.<stamp>" is <<0, stamp>>, *)
(* "app.log.<stamp>.<n>" is <<0, stamp, n>>, and a file of another program *)
(* is <<1>>.  The directory is a function from names to files; a file is   *)
(* its lines and its modification time.                                    *)
(***************************************************************************)
EXTENDS Integers, Sequences, FiniteSets, TLC

VARIABLES
    now,         \* the wall clock (time.time(), datetime.now()), in ticks
    fs,          \* the log directory: name -> [lines, mtime]
    stream,      \* self.stream: TRUE when a stream is open on baseFilename
    rolloverAt,  \* self.rolloverAt, in seconds
    maxBytes,    \* self.maxBytes
    keep_days,   \* self.keep_days
    emitted,     \* number of records handed to emit so far
    last,        \* what the last handler operation did (history)
    quiet,       \* every emit so far stayed under the size and time limits
    tl,          \* thread_local: thread -> its attributes
    want,        \* per thread, the id last set since its last clear (history)
    everSet,     \* per thread, whether set_request_id was ever called on it
    recs,        \* per thread, the last LogRecord made on it (history)
    cleared,     \* per thread, how its last clear_request_id() ended (history)
    handles,     \* file objects the handler has opened and not closed
    flt,         \* what the environment did to the last rollover (history)
    sw,          \* what the environment did to the last sweep (history)
    pc,          \* per thread, where it is in handle() or in the sweep
    lock,        \* per handler on the base path, the thread holding its lock
    hRoll,       \* per handler on the base path, its rolloverAt
    hFile        \* per handler on the base path, the file its stream is on

vars == <<now, fs, stream, rolloverAt, maxBytes, keep_days, emitted, last,
          quiet, tl, want, everSet, recs, cleared, handles, flt,
          sw, pc, lock, hRoll, hFile>>

rotVars == <<now, fs, stream, rolloverAt, maxBytes, keep_days, emitted, last,
             quiet>>
ctxVars == <<tl, want, everSet, recs, cleared>>
fltVars == <<handles, flt>>
swVars == <<sw>>
concVars == <<pc, lock, hRoll, hFile>>
envVars == <<fltVars, swVars, concVars>>

---------------------------------------------------------------------------
(* Bounds and scale *)

TicksPerSec == 2
MinuteSecs == 1
DaySecs == 2
Horizon == 5
MaxEmits == 3
MinRecLen == 2
MaxRecLen == 3
NumThreads == 2
NumHandlers == 2

Minute == MinuteSecs * TicksPerSec
Day == DaySecs * TicksPerSec
\* create_timed_rotating_log_handler(..., keep_days=10, ...)
KeepDaysDefault == 10

StartTime == Day + 1
MaxTime == StartTime + Horizon

\* int(time.time())
Seconds(t) == t \div TicksPerSec

---------------------------------------------------------------------------
(* File names *)

baseFilename == <<0>>
otherFile == <<1>>
foreignSuffix == 0 - 1
bakFile == <<0, foreignSuffix>>

\* fileName.startswith(baseName), the "." forgotten
StartsWithPrefixDotless(fileName) ==
    /\ Len(fileName) >= Len(baseFilename)
    /\ SubSeq(fileName, 1, Len(baseFilename)) = baseFilename

\* fileName.startswith(prefix), prefix = baseName + "."
StartsWithPrefix(fileName) ==
    /\ Len(fileName) > Len(baseFilename)
    /\ SubSeq(fileName, 1, Len(baseFilename)) = baseFilename

\* time.strftime("%Y%m%d_%H%M%S", time.gmtime()): one stamp per second
Stamp(t) == Seconds(t)

Exists(dir, name) == name \in DOMAIN dir

Remove(dir, name) == [n \in (DOMAIN dir) \ {name} |-> dir[n]]

Put(dir, name, file) ==
    [n \in (DOMAIN dir) \cup {name} |-> IF n = name THEN file ELSE dir[n]]

\* os.replace(src, dst): dst takes src's file, mtime kept; an existing dst
\* is overwritten
OsReplace(dir, src, dst) == Put(Remove(dir, src), dst, dir[src])

\* self._open() in mode 'a': the file is created empty when missing
OpenAppend(dir, t) ==
    IF Exists(dir, baseFilename) THEN dir
    ELSE Put(dir, baseFilename, [lines |-> <<>>, mtime |-> t])

---------------------------------------------------------------------------
(* Records and sizes *)

\* A formatted record with its newline: len(msg) is chars, the encoded
\* text is bytes long (a non-ASCII character takes more than one byte).
Records ==
    {[chars |-> c, bytes |-> c + x] : c \in {MinRecLen, MaxRecLen}, x \in 0..1}

RECURSIVE SumBytes(_)
SumBytes(lines) ==
    IF lines = <<>> THEN 0
    ELSE lines[1].bytes + SumBytes(Tail(lines))

\* self.stream.seek(0, 2); self.stream.tell()
Tell(dir) == SumBytes(dir[baseFilename].lines)

---------------------------------------------------------------------------
(* Rotation policy and schedule *)

\* computeRollover adding the interval without aligning to midnight
computeRolloverUnaligned(currentTime) == currentTime + DaySecs

\* TimedRotatingFileHandler.computeRollover for when='midnight',
\* interval=1: the next day boundary strictly after currentTime
computeRollover(currentTime) == ((currentTime \div DaySecs) + 1) * DaySecs

\* shouldRollover without the maxBytes > 0 test
shouldRolloverUnguarded(dir, rec, t, mb, rAt) ==
    \/ Tell(dir) + rec.chars >= mb
    \/ Seconds(t) >= rAt

\* shouldRollover(record), on the directory after the lazy open
shouldRollover(dir, rec, t, mb, rAt) ==
    \/ mb > 0 /\ Tell(dir) + rec.chars >= mb
    \/ Seconds(t) >= rAt

---------------------------------------------------------------------------
(* Rollover and retention *)

\* the loop of doRollover: dfn = f"{dfn_base}.{count}" until dfn is free
RECURSIVE FreeName(_, _, _)
FreeName(dir, dfn_base, count) ==
    LET dfn == Append(dfn_base, count)
    IN  IF Exists(dir, dfn) THEN FreeName(dir, dfn_base, count + 1) ELSE dfn

\* the archive name without the collision loop
ArchiveNameNoCollision(dir, t) == Append(baseFilename, Stamp(t))

\* the archive name doRollover picks at time t
ArchiveName(dir, t) ==
    LET dfn == Append(baseFilename, Stamp(t))
    IN  IF Exists(dir, dfn) THEN FreeName(dir, dfn, 1) ELSE dfn

\* (current_time - fileTime) > timedelta(minutes=1)
Expired(mtime, t) == t - mtime > Minute

\* deleteOldLogs() run at time t on directory dir: the directory it leaves
deleteOldLogs(dir, t) ==
    LET gone == {n \in DOMAIN dir :
                    StartsWithPrefix(n) /\ Expired(dir[n].mtime, t)}
    IN  [n \in (DOMAIN dir) \ gone |-> dir[n]]

\* doRollover without the recomputation of rolloverAt
doRolloverStaleSchedule(dir, t) ==
    LET dfn == ArchiveName(dir, t)
        renamed == IF Exists(dir, baseFilename)
                   THEN OsReplace(dir, baseFilename, dfn)
                   ELSE dir
        reopened == OpenAppend(renamed, t)
    IN  [dfn |-> dfn,
         pre |-> reopened,
         dir |-> deleteOldLogs(reopened, t),
         rolloverAt |-> rolloverAt]

\* doRollover running the sweep only when it renamed the base file
doRolloverSweepAfterRename(dir, t) ==
    LET currentTime == Seconds(t)
        dfn == ArchiveName(dir, t)
        renamed == IF Exists(dir, baseFilename)
                   THEN OsReplace(dir, baseFilename, dfn)
                   ELSE dir
        reopened == OpenAppend(renamed, t)
    IN  [dfn |-> dfn,
         pre |-> reopened,
         dir |-> IF Exists(dir, baseFilename)
                 THEN deleteOldLogs(reopened, t)
                 ELSE reopened,
         rolloverAt |-> computeRollover(currentTime)]

\* doRollover() run at time t on directory dir (the stream is closed
\* first and reopened after the rename, delay being False): the archive
\* name, the directory as the sweep finds it, the directory doRollover
\* leaves and the new schedule
doRollover(dir, t) ==
    LET currentTime == Seconds(t)
        dfn == ArchiveName(dir, t)
        renamed == IF Exists(dir, baseFilename)
                   THEN OsReplace(dir, baseFilename, dfn)
                   ELSE dir
        reopened == OpenAppend(renamed, t)
    IN  [dfn |-> dfn,
         pre |-> reopened,
         dir |-> deleteOldLogs(reopened, t),
         rolloverAt |-> computeRollover(currentTime)]

\* FileHandler.emit: msg + "\n" is appended to the stream and flushed
Write(dir, line, t) ==
    Put(dir, baseFilename,
        [lines |-> Append(dir[baseFilename].lines, line), mtime |-> t])

---------------------------------------------------------------------------
(* The handler's state after construction *)

oldLine == [id |-> 0, chars |-> MinRecLen, bytes |-> MinRecLen]

OldFile(t) == [lines |-> <<oldLine>>, mtime |-> t]

\* what the log directory may hold when the handler is constructed
InitDirs ==
    { otherFile :> OldFile(0),
      otherFile :> OldFile(0) @@ baseFilename :> OldFile(0),
      otherFile :> OldFile(0) @@ baseFilename :> OldFile(StartTime - 1)
          @@ Append(baseFilename, Stamp(0)) :> OldFile(0)
          @@ Append(baseFilename, Stamp(StartTime - 1)) :> OldFile(StartTime - 1)
          @@ bakFile :> OldFile(0) }

MaxBytesChoices == {0, MaxRecLen, 2 * MaxRecLen}

NoRecord == [chars |-> 0, bytes |-> 0]

\* the time of the last completed rollover when there was none
NoTime == 0 - 1

\* __init__: the stream is opened at once (delay is False), rolloverAt is
\* computed from the base file's mtime when it exists, else from now
InitHandler ==
    /\ now = StartTime
    /\ \E d \in InitDirs :
          /\ fs = OpenAppend(d, StartTime)
          /\ rolloverAt = computeRollover(
                 IF Exists(d, baseFilename)
                 THEN Seconds(d[baseFilename].mtime)
                 ELSE Seconds(StartTime))
    /\ stream = TRUE
    /\ maxBytes \in MaxBytesChoices
    /\ keep_days = KeepDaysDefault
    /\ emitted = 0
    /\ last = [op |-> "init", rec |-> NoRecord, id |-> 0, size |-> 0,
               should |-> FALSE, rollovers |-> 0, dfn |-> baseFilename,
               swept |-> FALSE, before |-> fs, pre |-> fs, post |-> fs,
               at |-> now, rAt |-> rolloverAt, rolledAt |-> NoTime]
    /\ quiet = TRUE

---------------------------------------------------------------------------
(* Handler operations *)

\* for the history variable quiet: the record's encoded size keeps the
\* file under max_bytes (when size rotation is on) and the clock is before
\* the scheduled rollover
Calm(dir, rec, t, mb, rAt) ==
    /\ mb > 0 => Tell(dir) + rec.bytes < mb
    /\ Seconds(t) < rAt

\* BaseRotatingHandler.emit(record): shouldRollover, doRollover when it
\* says so, then the record is written
Emit(rec) ==
    /\ emitted < MaxEmits
    /\ LET opened == IF stream THEN fs ELSE OpenAppend(fs, now)
           should == shouldRollover(opened, rec, now, maxBytes, rolloverAt)
           r == doRollover(opened, now)
           dir == IF should THEN r.dir ELSE opened
           line == [id |-> emitted + 1, chars |-> rec.chars,
                    bytes |-> rec.bytes]
       IN  /\ fs' = Write(dir, line, now)
           /\ rolloverAt' = IF should THEN r.rolloverAt ELSE rolloverAt
           /\ last' = [op |-> "emit", rec |-> rec, id |-> emitted + 1,
                       size |-> Tell(opened), should |-> should,
                       rollovers |-> IF should THEN 1 ELSE 0,
                       dfn |-> IF should THEN r.dfn ELSE baseFilename,
                       swept |-> should, before |-> fs,
                       pre |-> IF should THEN r.pre ELSE fs,
                       post |-> dir, at |-> now, rAt |-> rolloverAt,
                       rolledAt |-> IF should THEN now ELSE last.rolledAt]
           /\ quiet' = (quiet /\ Calm(opened, rec, now, maxBytes, rolloverAt))
    /\ stream' = TRUE
    /\ emitted' = emitted + 1
    /\ UNCHANGED <<now, maxBytes, keep_days, ctxVars, envVars>>

\* handler.deleteOldLogs(), as create_timed_rotating_log_handler calls it
Sweep ==
    /\ fs' = deleteOldLogs(fs, now)
    /\ last' = [op |-> "sweep", rec |-> NoRecord, id |-> 0, size |-> 0,
                should |-> FALSE, rollovers |-> 0, dfn |-> baseFilename,
                swept |-> TRUE, before |-> fs, pre |-> fs, post |-> fs',
                at |-> now, rAt |-> rolloverAt, rolledAt |-> last.rolledAt]
    /\ UNCHANGED <<now, stream, rolloverAt, maxBytes, keep_days, emitted,
                   quiet, ctxVars, envVars>>

\* the wall clock advances
Tick ==
    /\ now < MaxTime
    /\ now' = now + 1
    /\ UNCHANGED <<fs, stream, rolloverAt, maxBytes, keep_days, emitted,
                   last, quiet, ctxVars, envVars>>

\* another program removes the active file while the handler holds it
\* open; the handler's stream stays open on the unlinked file
ExternalRemove ==
    /\ Exists(fs, baseFilename)
    /\ fs' = Remove(fs, baseFilename)
    /\ UNCHANGED <<now, stream, rolloverAt, maxBytes, keep_days, emitted,
                   last, quiet, ctxVars, envVars>>

\* BaseRotatingHandler.emit(record) of a handler with max_bytes = 0, whose
\* shouldRollover looks at the clock only, when the active file may have
\* been removed under the open stream: without rollover the record goes
\* to the unlinked file and the directory is left as it is
EmitExt(rec) ==
    /\ emitted < MaxEmits
    /\ maxBytes = 0
    /\ stream
    /\ LET should == shouldRollover(fs, rec, now, maxBytes, rolloverAt)
           r == doRollover(fs, now)
           dir == IF should THEN r.dir ELSE fs
           line == [id |-> emitted + 1, chars |-> rec.chars,
                    bytes |-> rec.bytes]
       IN  /\ fs' = IF Exists(dir, baseFilename)
                    THEN Write(dir, line, now)
                    ELSE dir
           /\ rolloverAt' = IF should THEN r.rolloverAt ELSE rolloverAt
           /\ last' = [op |-> "emit", rec |-> rec, id |-> emitted + 1,
                       size |-> IF Exists(fs, baseFilename)
                                THEN Tell(fs) ELSE 0,
                       should |-> should,
                       rollovers |-> IF should THEN 1 ELSE 0,
                       dfn |-> IF should THEN r.dfn ELSE baseFilename,
                       swept |-> should, before |-> fs,
                       pre |-> IF should THEN r.pre ELSE fs,
                       post |-> dir, at |-> now, rAt |-> rolloverAt,
                       rolledAt |-> IF should THEN now ELSE last.rolledAt]
    /\ emitted' = emitted + 1
    /\ UNCHANGED <<now, stream, maxBytes, keep_days, quiet, ctxVars, envVars>>

---------------------------------------------------------------------------
(* The rollover when the rename can fail *)

\* What the environment does to one doRollover: raced, another program
\* creates the archive name after lines 66-71 found it free; first, how
\* the os.replace of line 75 ends ("exists": OSError because of the
\* destination, "other": OSError for another reason); second, how the
\* os.replace of line 78 ends.
Envs ==
    {e \in [raced : BOOLEAN, first : {"ok", "exists", "other"},
            second : {"ok", "fail"}] :
        e.first = "exists" => e.raced}

\* records of one byte per character
AsciiRecords == {rec \in Records : rec.bytes = rec.chars}

NoEnv == [raced |-> FALSE, first |-> "ok", second |-> "ok"]

\* self.stream = None without the close: the file object stays open
CloseStreamLeak(h) == h

\* self.stream.close(); self.stream = None
CloseStream(h) == IF h > 0 THEN h - 1 ELSE h

\* self.stream = self._open(), on the handles open so far
OpenStream(h) == h + 1

\* doRollover recomputing rolloverAt before the rename
doRolloverWithEagerSchedule(dir, t, h, rAt, env) ==
    LET currentTime == Seconds(t)
        closed == CloseStream(h)
        dfn == ArchiveName(dir, t)
        found == IF env.raced THEN Put(dir, dfn, OldFile(t)) ELSE dir
        failed == env.first # "ok"
        removable == failed /\ Exists(found, dfn)
        cleaned == IF removable THEN Remove(found, dfn) ELSE found
        raised == failed /\ (~removable \/ env.second = "fail")
        renamed == OsReplace(cleaned, baseFilename, dfn)
        reopened == OpenAppend(renamed, t)
    IN  IF raised
        THEN [raised |-> TRUE, dfn |-> dfn, pre |-> cleaned, dir |-> cleaned,
              rolloverAt |-> computeRollover(currentTime),
              removed |-> IF removable THEN {dfn} ELSE {},
              retries |-> IF removable THEN 1 ELSE 0,
              atRename |-> closed, handles |-> closed]
        ELSE [raised |-> FALSE, dfn |-> dfn, pre |-> reopened,
              dir |-> deleteOldLogs(reopened, t),
              rolloverAt |-> computeRollover(currentTime),
              removed |-> IF removable THEN {dfn} ELSE {},
              retries |-> IF removable THEN 1 ELSE 0,
              atRename |-> closed, handles |-> OpenStream(closed)]

\* doRollover() run at time t on directory dir, which holds the base file,
\* with h handles open and rolloverAt = rAt, in environment env. The
\* stream is closed, the archive name chosen; os.replace is tried and,
\* on any OSError, os.remove(dfn) then os.replace again, an error of
\* either leaving doRollover; then the stream is reopened, rolloverAt
\* recomputed and the sweep run.
doRolloverWith(dir, t, h, rAt, env) ==
    LET currentTime == Seconds(t)
        closed == CloseStream(h)
        dfn == ArchiveName(dir, t)
        found == IF env.raced THEN Put(dir, dfn, OldFile(t)) ELSE dir
        failed == env.first # "ok"
        removable == failed /\ Exists(found, dfn)
        cleaned == IF removable THEN Remove(found, dfn) ELSE found
        raised == failed /\ (~removable \/ env.second = "fail")
        renamed == OsReplace(cleaned, baseFilename, dfn)
        reopened == OpenAppend(renamed, t)
    IN  IF raised
        THEN [raised |-> TRUE, dfn |-> dfn, pre |-> cleaned, dir |-> cleaned,
              rolloverAt |-> rAt,
              removed |-> IF removable THEN {dfn} ELSE {},
              retries |-> IF removable THEN 1 ELSE 0,
              atRename |-> closed, handles |-> closed]
        ELSE [raised |-> FALSE, dfn |-> dfn, pre |-> reopened,
              dir |-> deleteOldLogs(reopened, t),
              rolloverAt |-> computeRollover(currentTime),
              removed |-> IF removable THEN {dfn} ELSE {},
              retries |-> IF removable THEN 1 ELSE 0,
              atRename |-> closed, handles |-> OpenStream(closed)]

\* no rollover attempted yet
NoFault ==
    [env |-> NoEnv, raised |-> FALSE, removed |-> {}, retries |-> 0,
     atRename |-> 0, lazy |-> FALSE, timed |-> FALSE,
     prev |-> [raised |-> FALSE, timed |-> FALSE, chars |-> 0]]

\* the handlers constructed on the one base path
Handlers == 1..NumHandlers

\* the owner of a free lock
NoThread == 0

\* a thread outside handle() and outside the sweep
Idle == [at |-> "idle", h |-> 0, rec |-> NoRecord]

\* no sweep yet
NoSweep ==
    [bad |-> baseFilename, kind |-> "none", raised |-> FALSE,
     printed |-> {}]

InitEnv ==
    /\ handles = 1
    /\ flt = NoFault
    /\ sw = NoSweep
    /\ pc = [t \in 1..NumThreads |-> Idle]
    /\ lock = [h \in Handlers |-> NoThread]
    /\ hRoll = [h \in Handlers |-> rolloverAt]
    /\ hFile = [h \in Handlers |-> baseFilename]

\* BaseRotatingHandler.emit(record) in environment env: shouldRollover
\* opens the stream when it is None; an error leaving doRollover is
\* caught by emit and handed to handleError, the record is not written
\* (an emit that does not roll over meets no environment: env is NoEnv)
EmitWith(rec, env) ==
    /\ emitted < MaxEmits
    /\ LET opened == IF stream THEN fs ELSE OpenAppend(fs, now)
           h == IF stream THEN handles ELSE OpenStream(handles)
           should == shouldRollover(opened, rec, now, maxBytes, rolloverAt)
           r == doRolloverWith(opened, now, h, rolloverAt, env)
           raised == should /\ r.raised
           dir == IF should THEN r.dir ELSE opened
           line == [id |-> emitted + 1, chars |-> rec.chars,
                    bytes |-> rec.bytes]
       IN  /\ should \/ env = NoEnv
           /\ fs' = IF raised THEN dir ELSE Write(dir, line, now)
           /\ rolloverAt' = IF should THEN r.rolloverAt ELSE rolloverAt
           /\ stream' = ~raised
           /\ handles' = IF should THEN r.handles ELSE h
           /\ last' = [op |-> "emit", rec |-> rec, id |-> emitted + 1,
                       size |-> Tell(opened), should |-> should,
                       rollovers |-> IF should /\ ~raised THEN 1 ELSE 0,
                       dfn |-> IF should THEN r.dfn ELSE baseFilename,
                       swept |-> should /\ ~raised, before |-> fs,
                       pre |-> IF should THEN r.pre ELSE fs,
                       post |-> dir, at |-> now, rAt |-> rolloverAt,
                       rolledAt |-> IF should /\ ~raised THEN now
                                    ELSE last.rolledAt]
           /\ flt' = [env |-> IF should THEN env ELSE NoEnv,
                      raised |-> raised,
                      removed |-> IF should THEN r.removed ELSE {},
                      retries |-> IF should THEN r.retries ELSE 0,
                      atRename |-> IF should THEN r.atRename ELSE h,
                      lazy |-> ~stream,
                      timed |-> Seconds(now) >= rolloverAt,
                      prev |-> [raised |-> flt.raised, timed |-> flt.timed,
                                chars |-> last.rec.chars]]
    /\ emitted' = emitted + 1
    /\ UNCHANGED <<now, maxBytes, keep_days, quiet, ctxVars, swVars,
                   concVars>>

---------------------------------------------------------------------------
(* The sweep when files can vanish or resist removal *)

\* what can happen to a file during the sweep: "vanished", another
\* program removes it after os.listdir and before os.path.getmtime;
\* "unremovable", os.remove raises
Faults == {"none", "vanished", "unremovable"}

\* the orders in which the names of S can be listed
RECURSIVE Perms(_)
Perms(S) ==
    IF S = {} THEN {<<>>}
    ELSE UNION {{<<n>> \o p : p \in Perms(S \ {n})} : n \in S}

\* os.listdir(dirName), any order, kept to the names that start with
\* prefix
Listings(dir) == Perms({n \in DOMAIN dir : StartsWithPrefix(n)})

\* the environments of one sweep of dir: the listing order and the fault
\* that meets the file bad
SweepEnvs(dir) ==
    [order : Listings(dir), bad : DOMAIN dir, kind : Faults]

\* the loop of deleteOldLogs from the i-th listed name on: getmtime is
\* outside the try and its error ends the loop and leaves deleteOldLogs;
\* the error of os.remove is caught and its message printed
RECURSIVE SweepFrom(_, _, _, _, _)
SweepFrom(dir, t, env, i, printed) ==
    IF i > Len(env.order)
    THEN [dir |-> dir, raised |-> FALSE, printed |-> printed]
    ELSE LET fileName == env.order[i]
             fault == IF fileName = env.bad THEN env.kind ELSE "none"
         IN  IF fault = "vanished"
             THEN [dir |-> Remove(dir, fileName), raised |-> TRUE,
                   printed |-> printed]
             ELSE IF ~Expired(dir[fileName].mtime, t)
             THEN SweepFrom(dir, t, env, i + 1, printed)
             ELSE IF fault = "unremovable"
             THEN SweepFrom(dir, t, env, i + 1, printed \cup {fileName})
             ELSE SweepFrom(Remove(dir, fileName), t, env, i + 1, printed)

\* deleteOldLogs() run at time t on directory dir in environment env
deleteOldLogsWith(dir, t, env) == SweepFrom(dir, t, env, 1, {})

\* handler.deleteOldLogs() in environment env
SweepWith(env) ==
    /\ LET r == deleteOldLogsWith(fs, now, env)
       IN  /\ fs' = r.dir
           /\ sw' = [bad |-> env.bad, kind |-> env.kind,
                     raised |-> r.raised, printed |-> r.printed]
    /\ last' = [op |-> "sweep", rec |-> NoRecord, id |-> 0, size |-> 0,
                should |-> FALSE, rollovers |-> 0, dfn |-> baseFilename,
                swept |-> TRUE, before |-> fs, pre |-> fs, post |-> fs',
                at |-> now, rAt |-> rolloverAt, rolledAt |-> last.rolledAt]
    /\ UNCHANGED <<now, stream, rolloverAt, maxBytes, keep_days, emitted,
                   quiet, ctxVars, fltVars, concVars>>

---------------------------------------------------------------------------
(* Threads and handlers on one base path, time rotation only *)

\* the file a stream is on, unlinked from the directory
Unlinked == <<>>

\* Handler.handle(record) of handler h on thread t: the handler's own lock
\* is acquired (Handler.acquire, inherited), then emit is entered
Acquire(t, h, rec) ==
    /\ emitted < MaxEmits
    /\ maxBytes = 0
    /\ pc[t] = Idle
    /\ lock[h] = NoThread
    /\ lock' = [lock EXCEPT ![h] = t]
    /\ pc' = [pc EXCEPT ![t] = [at |-> "should", h |-> h, rec |-> rec]]
    /\ emitted' = emitted + 1
    /\ UNCHANGED <<now, fs, stream, rolloverAt, maxBytes, keep_days, last,
                   quiet, ctxVars, fltVars, swVars, hRoll, hFile>>

\* shouldRollover(record) of the handler thread t is in: with max_bytes = 0
\* the clock against the handler's rolloverAt
Evaluate(t) ==
    /\ pc[t].at = "should"
    /\ LET h == pc[t].h
           should == shouldRollover(fs, pc[t].rec, now, maxBytes, hRoll[h])
       IN  pc' = [pc EXCEPT ![t].at = IF should THEN "rollover" ELSE "write"]
    /\ UNCHANGED <<rotVars, ctxVars, fltVars, swVars, lock, hRoll, hFile>>

\* the streams after name src was renamed to dst and the directory became
\* dir: a stream follows its file
Follow(files, src, dst, dir) ==
    [h \in Handlers |->
        LET n == IF files[h] = src THEN dst
                 ELSE IF files[h] = dst THEN Unlinked
                 ELSE files[h]
        IN  IF n \in DOMAIN dir THEN n ELSE Unlinked]

\* doRollover() of the handler thread t is in
Rotate(t) ==
    /\ pc[t].at = "rollover"
    /\ LET h == pc[t].h
           r == doRollover(fs, now)
           src == IF Exists(fs, baseFilename) THEN baseFilename ELSE Unlinked
       IN  /\ fs' = r.dir
           /\ hRoll' = [hRoll EXCEPT ![h] = r.rolloverAt]
           /\ hFile' = [Follow(hFile, src, r.dfn, r.dir)
                           EXCEPT ![h] = baseFilename]
    /\ pc' = [pc EXCEPT ![t].at = "write"]
    /\ UNCHANGED <<now, stream, rolloverAt, maxBytes, keep_days, emitted,
                   last, quiet, ctxVars, fltVars, swVars, lock>>

\* FileHandler.emit on the handler's stream, then Handler.release
WriteRelease(t) ==
    /\ pc[t].at = "write"
    /\ LET h == pc[t].h
           line == [id |-> emitted, chars |-> pc[t].rec.chars,
                    bytes |-> pc[t].rec.bytes]
       IN  /\ fs' = IF hFile[h] = Unlinked THEN fs
                    ELSE Put(fs, hFile[h],
                             [lines |-> Append(fs[hFile[h]].lines, line),
                              mtime |-> now])
           /\ lock' = [lock EXCEPT ![h] = NoThread]
    /\ pc' = [pc EXCEPT ![t] = Idle]
    /\ UNCHANGED <<now, stream, rolloverAt, maxBytes, keep_days, emitted,
                   last, quiet, ctxVars, fltVars, swVars, hRoll, hFile>>

\* create_timed_rotating_log_handler(filename) on thread t: a further
\* handler is constructed on the base path (the file is created when
\* missing) and its deleteOldLogs() is about to run; no lock is taken
Create(t) ==
    /\ pc[t] = Idle
    /\ fs' = OpenAppend(fs, now)
    /\ pc' = [pc EXCEPT ![t] = [at |-> "sweep", h |-> 0, rec |-> NoRecord]]
    /\ UNCHANGED <<now, stream, rolloverAt, maxBytes, keep_days, emitted,
                   last, quiet, ctxVars, fltVars, swVars, lock, hRoll, hFile>>

\* handler.deleteOldLogs() of create_timed_rotating_log_handler
CreateSweep(t) ==
    /\ pc[t].at = "sweep"
    /\ fs' = deleteOldLogs(fs, now)
    /\ hFile' = Follow(hFile, Unlinked, Unlinked, fs')
    /\ pc' = [pc EXCEPT ![t] = Idle]
    /\ UNCHANGED <<now, stream, rolloverAt, maxBytes, keep_days, emitted,
                   last, quiet, ctxVars, fltVars, swVars, lock, hRoll>>

---------------------------------------------------------------------------
(* Properties of the rotating handler *)

\* the name is "<baseFileName>." followed by something
HasBasePrefix(n) == Len(n) > 1 /\ n[1] = baseFilename[1]

\* the lines the handler itself wrote, in file order
OwnLines(lines) == SelectSeq(lines, LAMBDA l : l.id > 0)

LastLine == [id |-> last.id, chars |-> last.rec.chars,
             bytes |-> last.rec.bytes]

Rolled == last.op = "emit" /\ last.rollovers = 1

\* C1: when doRollover() has returned, its sweep included, the archive
\* that rollover created is in the directory and holds every line the
\* active file held before the rollover.
C1_NoLineLostByRollover ==
    (Rolled /\ last.before[baseFilename].lines # <<>>) =>
        /\ last.dfn \in DOMAIN last.post
        /\ last.post[last.dfn].lines = last.before[baseFilename].lines

\* C2: with max_bytes > 0, an emit that finds the active file's size plus
\* the record's encoded size at or over max_bytes rolls over exactly once
\* and before the append, so that the active file then holds the
\* triggering record alone; doRollover() runs only when shouldRollover()
\* said so.
C2_SizeRolloverBeforeAppend ==
    last.op = "emit" =>
        /\ (maxBytes > 0 /\ last.size + last.rec.bytes >= maxBytes) =>
               /\ last.rollovers = 1
               /\ Exists(last.post, baseFilename)
        /\ last.rollovers > 0 => last.should

\* C3: an emit whose record keeps the file's size under max_bytes, made
\* before rolloverAt, decides against a rollover, creates and removes no
\* file and appends its line to the active file; as long as every emit
\* is such, all the handler's lines are in the active file, in order,
\* and in no other file.
C3_NoRolloverWhileUnderLimits ==
    /\ ( /\ last.op = "emit"
         /\ maxBytes > 0 => last.size + last.rec.bytes < maxBytes
         /\ Seconds(last.at) < last.rAt ) =>
           /\ ~last.should
           /\ last.rollovers = 0
           /\ DOMAIN fs = DOMAIN last.before
           /\ \A n \in (DOMAIN fs) \ {baseFilename} : fs[n] = last.before[n]
           /\ fs[baseFilename].lines =
                  Append(last.before[baseFilename].lines, LastLine)
    /\ quiet =>
           /\ \A n \in (DOMAIN fs) \ {baseFilename} :
                  OwnLines(fs[n].lines) = <<>>
           /\ Len(OwnLines(fs[baseFilename].lines)) = emitted
           /\ \A i \in 1..emitted : OwnLines(fs[baseFilename].lines)[i].id = i

C3_Witness ==
    /\ quiet
    /\ last.op = "emit"
    /\ emitted >= 2
    /\ maxBytes > 0

\* C4: after a sweep, a file named "<baseFileName>.*" is absent when its
\* modification time is more than keep_days days old, and present when
\* it is not.
C4_RetentionFollowsKeepDays ==
    last.swept =>
        \A n \in DOMAIN last.pre :
            HasBasePrefix(n) =>
                IF last.at - last.pre[n].mtime > keep_days * Day
                THEN n \notin DOMAIN last.post
                ELSE n \in DOMAIN last.post

\* C5: a sweep leaves the active file in place, removes only files named
\* "<baseFileName>.*", and leaves every file it keeps as it was.
C5_SweepSparesActiveFile ==
    last.swept =>
        /\ baseFilename \in DOMAIN last.pre => baseFilename \in DOMAIN last.post
        /\ \A n \in DOMAIN last.pre :
               ~HasBasePrefix(n) => n \in DOMAIN last.post
        /\ DOMAIN last.post \subseteq DOMAIN last.pre
        /\ \A n \in DOMAIN last.post : last.post[n] = last.pre[n]

C5_Witness ==
    /\ last.swept
    /\ DOMAIN last.post # DOMAIN last.pre
    /\ last.at - last.pre[baseFilename].mtime > Minute
    /\ baseFilename \in DOMAIN last.post

Tiny(rec) == maxBytes > 0 => rec.bytes < maxBytes

\* C7: on the directory and schedule doRollover() leaves, at the time it
\* ran, shouldRollover() is false for every tiny record: the active file
\* is there and empty, and rolloverAt is after that time.
C7_NoRolloverRightAfterRollover ==
    Rolled =>
        /\ \A rec \in Records :
               Tiny(rec) =>
                   ~shouldRollover(last.post, rec, last.at, maxBytes,
                                   rolloverAt)
        /\ baseFilename \in DOMAIN last.post
        /\ last.post[baseFilename].lines = <<>>
        /\ Seconds(last.at) < rolloverAt

C7_Witness ==
    /\ Rolled
    /\ Seconds(last.at) >= last.rAt
    /\ maxBytes > 0
    /\ \E rec \in Records : Tiny(rec)

\* C14: shouldRollover(record) is true exactly when max_bytes > 0 and the
\* active file's length in bytes plus the record's encoded size in bytes
\* is at least max_bytes, or the time is at or past rolloverAt.
C14_ShouldRolloverIsReference ==
    last.op = "emit" =>
        (last.should <=>
            \/ maxBytes > 0 /\ last.size + last.rec.bytes >= maxBytes
            \/ Seconds(last.at) >= last.rAt)

\* C15: once a rollover has completed, rolloverAt is the day boundary
\* that follows the time of the last completed rollover: a multiple of
\* the day, after that time and at most a day after it.
C15_ScheduleAfterLastRollover ==
    last.rolledAt # NoTime =>
        /\ rolloverAt > Seconds(last.rolledAt)
        /\ rolloverAt - DaySecs <= Seconds(last.rolledAt)
        /\ rolloverAt % DaySecs = 0

C15_Witness ==
    /\ Rolled
    /\ last.rolledAt = last.at
    /\ Seconds(last.at) < last.rAt
    /\ rolloverAt = last.rAt

\* C19: with max_bytes > 0 larger than the encoded size of every record,
\* the active file is shorter than max_bytes after every emit; and a
\* record whose encoded size is max_bytes or more makes its emit roll
\* over.
C19_ActiveFileStaysUnderMaxBytes ==
    (last.op = "emit" /\ maxBytes > 0) =>
        /\ (\A rec \in Records : rec.bytes < maxBytes) =>
               Tell(fs) < maxBytes
        /\ last.rec.bytes >= maxBytes => last.rollovers = 1

\* the directory without its entry for the active file
Archives(dir) == [n \in (DOMAIN dir) \ {baseFilename} |-> dir[n]]

\* a rollover that found no active file to rename
RolledWithoutBase == Rolled /\ ~Exists(last.before, baseFilename)

\* C16: when doRollover runs and the base file does not exist, the rename
\* is skipped: no archive is created or removed by that step, the stream
\* is reopened on a new empty base file, rolloverAt is recomputed to the
\* next day boundary and the sweep runs.
C16_RolloverWithoutBaseFile ==
    RolledWithoutBase =>
        /\ Archives(last.pre) = last.before
        /\ Exists(last.pre, baseFilename)
        /\ last.pre[baseFilename].lines = <<>>
        /\ stream
        /\ Exists(last.post, baseFilename)
        /\ rolloverAt > Seconds(last.at)
        /\ rolloverAt - DaySecs <= Seconds(last.at)
        /\ rolloverAt % DaySecs = 0
        /\ \A n \in DOMAIN last.pre :
              (StartsWithPrefix(n) /\ Expired(last.pre[n].mtime, last.at))
                  => ~Exists(last.post, n)

C16_Witness ==
    /\ RolledWithoutBase
    /\ \E n \in DOMAIN last.before :
          StartsWithPrefix(n) /\ Expired(last.before[n].mtime, last.at)

\* the last operation was an emit that called doRollover
Attempted == last.op = "emit" /\ last.should

\* C11: a rename that fails because the destination exists is recovered
\* by removing the destination and retrying exactly once; a rename that
\* fails for another reason leaves doRollover as an error, is not retried
\* and removes no file.
C11_RenameFailureRecovery ==
    Attempted =>
        /\ flt.env.first = "exists" =>
              flt.removed = {last.dfn} /\ flt.retries = 1
        /\ flt.env.first = "other" =>
              flt.raised /\ flt.retries = 0 /\ flt.removed = {}

\* C17: the handler has at most one file object open, the one self.stream
\* refers to; doRollover has none open when it renames; and a completed
\* doRollover leaves one stream open on a new, empty base file.
C17_SingleHandle ==
    /\ handles \in 0..1
    /\ stream <=> handles = 1
    /\ Attempted => flt.atRename = 0
    /\ Rolled =>
          /\ stream
          /\ Exists(last.pre, baseFilename)
          /\ last.pre[baseFilename].lines = <<>>

C17_Witness == Rolled /\ flt.lazy

\* the state a rollover that failed at the rename leaves behind: stream
\* closed and None, the directory with the base file and every archive as
\* before the emit (no sweep), rolloverAt unchanged
RetryableAfterFailure ==
    (last.op = "emit" /\ flt.raised) =>
        /\ ~stream
        /\ handles = 0
        /\ Exists(fs, baseFilename)
        /\ \A n \in DOMAIN last.before :
              Exists(fs, n) /\ fs[n] = last.before[n]
        /\ rolloverAt = last.rAt

\* the emit that follows a failed rollover
AfterFailure == last.op = "emit" /\ flt.prev.raised

\* C18: a rollover that fails at the rename leaves a retryable state, and
\* the next emit reopens the base file, finds shouldRollover true again
\* and attempts the rollover again.
C18_FailedRolloverIsRetried ==
    /\ RetryableAfterFailure
    /\ AfterFailure => flt.lazy /\ last.should

\* C18 amended: a rollover that fails at the rename leaves a retryable
\* state, and the next emit reopens the base file; it finds shouldRollover
\* true again and attempts the rollover again when the failed rollover
\* was due by the clock, or when its record is at least as long as the
\* one of the failed emit.
C18_FailedRolloverIsRetriedWhenStillDue ==
    /\ RetryableAfterFailure
    /\ AfterFailure => flt.lazy
    /\ (AfterFailure /\ (flt.prev.timed \/ last.rec.chars >= flt.prev.chars))
          => last.should

C18_Witness ==
    /\ AfterFailure
    /\ ~flt.prev.timed
    /\ Rolled

\* the matching files, other than the one the fault met, that were
\* expired when the last sweep ran
ExpiredOthers ==
    {n \in DOMAIN last.before :
        /\ StartsWithPrefix(n)
        /\ Expired(last.before[n].mtime, last.at)
        /\ ~(sw.kind # "none" /\ n = sw.bad)}

\* C12: a sweep in which one matching file cannot be removed, or vanishes
\* between the listing and its examination, returns normally and still
\* deletes every other expired matching file.
C12_SweepSurvivesFileFailure ==
    last.op = "sweep" =>
        /\ ~sw.raised
        /\ \A n \in ExpiredOthers : ~Exists(fs, n)

\* the threads inside the evaluate-and-possibly-rotate sequence or inside
\* a sweep on the base path
Inside == {t \in 1..NumThreads : pc[t].at # "idle"}

\* the threads about to rename the base file
Renaming == {t \in 1..NumThreads : pc[t].at = "rollover"}

\* C13: at most one execution context at a time is inside the sequence of
\* shouldRollover, doRollover with its sweep and the append, on one base
\* path, the sweep run from create_timed_rotating_log_handler and the
\* emits through a second handler on the same file included; no two
\* contexts are both about to rename the base file.
C13_OneContextPerBasePath ==
    /\ Cardinality(Inside) <= 1
    /\ Cardinality(Renaming) <= 1

---------------------------------------------------------------------------
(* The request context: thread_local and the record enricher *)

Threads == 1..NumThreads
Ids == {"abc", "xyz"}
Sentinel == "no_request_id"
None == "None"
Trace == "Traceback"

\* an object's attributes: a function from the names set to their values
NoAttrs == [n \in {} |-> None]

HasAttr(attrs, name) == name \in DOMAIN attrs

GetAttr(attrs, name, default) ==
    IF HasAttr(attrs, name) THEN attrs[name] ELSE default

SetAttr(attrs, name, value) ==
    [n \in (DOMAIN attrs) \cup {name} |->
        IF n = name THEN value ELSE attrs[n]]

\* del obj.name: AttributeError when the attribute is not set
DelAttr(attrs, name) ==
    [attrs |-> [n \in (DOMAIN attrs) \ {name} |-> attrs[n]],
     raised |-> ~HasAttr(attrs, name)]

\* get_request_id() on a thread whose attributes are attrs
get_request_id(attrs) == GetAttr(attrs, "request_id", Sentinel)

\* clear_request_id without the hasattr test
clear_request_idUnguarded(attrs) == DelAttr(attrs, "request_id")

\* clear_request_id()
clear_request_id(attrs) ==
    IF HasAttr(attrs, "request_id")
    THEN DelAttr(attrs, "request_id")
    ELSE [attrs |-> attrs, raised |-> FALSE]

\* RequestIdLogger.makeRecord, then RequestIdFilter.filter on the record
makeRecord(attrs, call, wanted) ==
    LET rv == [request_id |-> GetAttr(attrs, "request_id", Sentinel),
               exec_info |-> GetAttr(attrs, "exec_info", None),
               call |-> call, want |-> wanted]
    IN  [rv EXCEPT !.request_id = GetAttr(attrs, "request_id", Sentinel)]

NoRec == [request_id |-> Sentinel, exec_info |-> None, call |-> "none",
          want |-> Sentinel]

InitContext ==
    /\ tl = [t \in Threads |-> NoAttrs]
    /\ want = [t \in Threads |-> Sentinel]
    /\ everSet = [t \in Threads |-> FALSE]
    /\ recs = [t \in Threads |-> NoRec]
    /\ cleared = [t \in Threads |-> "never"]

\* set_request_id with thread_local a plain module-level object
SetRequestIdShared(t, id) ==
    /\ tl' = [u \in Threads |-> SetAttr(tl[u], "request_id", id)]
    /\ want' = [want EXCEPT ![t] = id]
    /\ everSet' = [everSet EXCEPT ![t] = TRUE]
    /\ UNCHANGED <<recs, cleared, rotVars, envVars>>

\* set_request_id(request_id) on thread t
SetRequestId(t, id) ==
    /\ tl' = [tl EXCEPT ![t] = SetAttr(@, "request_id", id)]
    /\ want' = [want EXCEPT ![t] = id]
    /\ everSet' = [everSet EXCEPT ![t] = TRUE]
    /\ UNCHANGED <<recs, cleared, rotVars, envVars>>

\* clear_request_id() on thread t
ClearRequestId(t) ==
    /\ tl' = [tl EXCEPT ![t] = clear_request_id(@).attrs]
    /\ cleared' = [cleared EXCEPT ![t] =
                     IF clear_request_id(tl[t]).raised THEN "raised"
                     ELSE IF want[t] = Sentinel THEN "ok_unset"
                     ELSE "ok"]
    /\ want' = [want EXCEPT ![t] = Sentinel]
    /\ UNCHANGED <<everSet, recs, rotVars, envVars>>

\* a log call other than exception() on thread t (logger.info, ...)
Log(t) ==
    /\ recs' = [recs EXCEPT ![t] = makeRecord(tl[t], "log", want[t])]
    /\ UNCHANGED <<tl, want, everSet, cleared, rotVars, envVars>>

\* RequestIdLogger.exception(msg) on thread t; the logging call it wraps
\* returns, or raises before or after the record is made
Outcomes == {"returns", "raises_before_record", "raises_after_record"}

Exception(t, outcome) ==
    LET captured == SetAttr(tl[t], "exec_info", Trace)
    IN  /\ recs' = IF outcome = "raises_before_record" THEN recs
                   ELSE [recs EXCEPT
                           ![t] = makeRecord(captured, "exception", want[t])]
        /\ tl' = [tl EXCEPT ![t] =
                     IF outcome = "returns"
                     THEN SetAttr(captured, "exec_info", None)
                     ELSE captured]
        /\ UNCHANGED <<want, everSet, cleared, rotVars, envVars>>

---------------------------------------------------------------------------
(* Properties of the request context *)

\* C8: on every thread get_request_id() returns the id last set on that
\* thread since its last clear, "no_request_id" when there is none or
\* when the thread never set one, and every record made on the thread
\* carries the id that was current on that thread when it was made,
\* whatever the other threads did.
C8_RequestIdPerThread ==
    \A t \in Threads :
        /\ get_request_id(tl[t]) = want[t]
        /\ ~everSet[t] => get_request_id(tl[t]) = Sentinel
        /\ recs[t].call # "none" => recs[t].request_id = recs[t].want
        /\ (recs[t].call # "none" /\ ~everSet[t]) =>
               recs[t].request_id = Sentinel

C8_Witness ==
    \E t, u \in Threads :
        /\ recs[t].call = "log" /\ recs[t].request_id = "abc"
        /\ recs[u].call = "log" /\ recs[u].request_id = Sentinel
        /\ ~everSet[u]

\* C9: clear_request_id() never raises, also when nothing is set; once
\* the id is cleared and until one is set again, get_request_id() and
\* the next record's request_id are "no_request_id".
C9_ClearRestoresSentinel ==
    \A t \in Threads :
        /\ cleared[t] # "raised"
        /\ want[t] = Sentinel =>
               /\ get_request_id(tl[t]) = Sentinel
               /\ makeRecord(tl[t], "log", want[t]).request_id = Sentinel

C9_Witness ==
    \E t \in Threads :
        /\ everSet[t]
        /\ want[t] = Sentinel
        /\ cleared[t] = "ok_unset"
        /\ recs[t].call = "log" /\ recs[t].request_id = Sentinel

\* C10: the record exception() makes carries the captured trace; once
\* the call has ended, by returning or by raising, no captured trace is
\* left on the thread, and a record made by another log call has
\* exec_info = None.
C10_TraceScopedToExceptionCall ==
    \A t \in Threads :
        /\ recs[t].call = "exception" => recs[t].exec_info = Trace
        /\ GetAttr(tl[t], "exec_info", None) = None
        /\ recs[t].call = "log" => recs[t].exec_info = None

---------------------------------------------------------------------------
(* Specifications *)

\* the handler alone, the request context idle
Init == InitHandler /\ InitContext /\ InitEnv

Next ==
    \/ \E rec \in Records : Emit(rec)
    \/ Sweep
    \/ Tick

Spec == Init /\ [][Next]_vars

\* a handler with time rotation only (max_bytes = 0) whose active file
\* another program may remove
InitExt == Init /\ maxBytes = 0

NextExt ==
    \/ \E rec \in Records : EmitExt(rec)
    \/ ExternalRemove
    \/ Sweep
    \/ Tick

SpecExt == InitExt /\ [][NextExt]_vars

\* the handler in an environment where the rename of doRollover can fail
\* a log directory that holds archives, old and recent, when the handler
\* is constructed
InitFault == Init /\ Exists(fs, bakFile)

NextFault ==
    \/ \E rec \in AsciiRecords, env \in Envs : EmitWith(rec, env)
    \/ Tick

SpecFault == InitFault /\ [][NextFault]_vars

\* the sweep in an environment where files vanish or cannot be removed
NextSweep ==
    \/ \E env \in SweepEnvs(fs) : SweepWith(env)
    \/ Tick

SpecSweep == InitFault /\ [][NextSweep]_vars

\* threads emitting through the handlers on one base path, and creating
\* handlers on it, with time rotation only (max_bytes = 0)
InitConc == InitFault /\ maxBytes = 0

NextConc ==
    \/ \E t \in 1..NumThreads, h \in Handlers, rec \in AsciiRecords :
          Acquire(t, h, rec)
    \/ \E t \in 1..NumThreads : Evaluate(t)
    \/ \E t \in 1..NumThreads : Rotate(t)
    \/ \E t \in 1..NumThreads : WriteRelease(t)
    \/ \E t \in 1..NumThreads : Create(t)
    \/ \E t \in 1..NumThreads : CreateSweep(t)
    \/ Tick

SpecConc == InitConc /\ [][NextConc]_vars

\* the request context alone, the handler idle: set_request_id,
\* clear_request_id and log calls on several threads
InitCtx ==
    /\ InitContext
    /\ now = StartTime
    /\ fs = OpenAppend(otherFile :> OldFile(0), StartTime)
    /\ rolloverAt = computeRollover(Seconds(StartTime))
    /\ stream = TRUE
    /\ maxBytes = 0
    /\ keep_days = KeepDaysDefault
    /\ emitted = 0
    /\ last = [op |-> "init", rec |-> NoRecord, id |-> 0, size |-> 0,
               should |-> FALSE, rollovers |-> 0, dfn |-> baseFilename,
               swept |-> FALSE, before |-> fs, pre |-> fs, post |-> fs,
               at |-> now, rAt |-> rolloverAt, rolledAt |-> NoTime]
    /\ quiet = TRUE
    /\ InitEnv

NextCtx ==
    \/ \E t \in Threads, id \in Ids : SetRequestId(t, id)
    \/ \E t \in Threads : ClearRequestId(t)
    \/ \E t \in Threads : Log(t)

SpecCtx == InitCtx /\ [][NextCtx]_vars

\* the request context with exception() calls as well
NextExc ==
    \/ NextCtx
    \/ \E t \in Threads, o \in Outcomes : Exception(t, o)

SpecExc == InitCtx /\ [][NextExc]_vars

=============================================================================
